---- MODULE Spec2Model ----
(***************************************************************************)
(* Model of the M-Pesa Express (STK push) request pipeline and of the      *)
(* security-credential encoder of mpesa-rust:                              *)
(*   src/src/services/express/express_request.rs                          *)
(*   src/src/mpesa_security.rs                                             *)
(* Strings are sequences of byte values.  The clock is the local wall      *)
(* clock read by chrono::Local::now(), kept as whole seconds plus a        *)
(* sub-second part so that two reads can fall inside the same second.      *)
(***************************************************************************)
EXTENDS Integers, Sequences, FiniteSets, TLC

\* ------------------------------------------------------------------ bounds

\* Sub-second clock readings distinguished inside one second.
TicksPerSecond == 2
\* How many whole seconds the clock may advance past its starting value.
MaxSeconds == 2
\* Smallest and largest small RSA modulus (bytes) drawn besides 128 and 256.
MinModulusBytes == 12
MaxModulusBytes == 14
\* Longest short initiator password drawn, besides the ones at the limit.
MaxPasswordLen == 3

\* ------------------------------------------------------------ option type

None == [some |-> FALSE]
Some(v) == [some |-> TRUE, val |-> v]
IsSome(o) == o.some
unwrap_or(o, d) == IF o.some THEN o.val ELSE d

\* ----------------------------------------------------------------- base64

\* The standard base64 alphabet, as ASCII codes.
B64Char(v) ==
    IF v < 26 THEN 65 + v
    ELSE IF v < 52 THEN 97 + (v - 26)
    ELSE IF v < 62 THEN 48 + (v - 52)
    ELSE IF v = 62 THEN 43 ELSE 47

B64Pad == 61

\* Standard padded base64 of a byte string, three bytes to four characters.
Base64Std(b) ==
    LET n == Len(b)
        groups == (n + 2) \div 3
        byteAt(i) == IF i <= n THEN b[i] ELSE 0
    IN [j \in 1..(4 * groups) |->
          LET g == (j - 1) \div 4
              k == (j - 1) % 4
              b0 == byteAt(3 * g + 1)
              b1 == byteAt(3 * g + 2)
              b2 == byteAt(3 * g + 3)
          IN CASE k = 0 -> B64Char(b0 \div 4)
               [] k = 1 -> B64Char((b0 % 4) * 16 + (b1 \div 16))
               [] k = 2 -> IF 3 * g + 2 > n THEN B64Pad
                           ELSE B64Char((b1 % 16) * 4 + (b2 \div 64))
               [] k = 3 -> IF 3 * g + 3 > n THEN B64Pad
                           ELSE B64Char(b2 % 64)]

\* openssl::base64::encode_block, used by encode_password.
encode_block(b) == Base64Std(b)

\* base64::encode, used by gen_security_credentials.
encode(b) == Base64Std(b)

\* The value of a base64 character (the inverse of the alphabet); -1 if none.
B64Value(c) ==
    IF c >= 65 /\ c <= 90 THEN c - 65
    ELSE IF c >= 97 /\ c <= 122 THEN c - 97 + 26
    ELSE IF c >= 48 /\ c <= 57 THEN c - 48 + 52
    ELSE IF c = 43 THEN 62
    ELSE IF c = 47 THEN 63 ELSE -1

\* Decoder the gateway applies to a Password or a credential: four characters
\* to three bytes, trailing padding dropping one byte each.
Base64Decode(s) ==
    LET n == Len(s)
        pads == IF n = 0 THEN 0
                ELSE IF s[n] # B64Pad THEN 0
                ELSE IF s[n - 1] # B64Pad THEN 1 ELSE 2
        outLen == 3 * (n \div 4) - pads
        v(i) == IF s[i] = B64Pad THEN 0 ELSE B64Value(s[i])
    IN [j \in 1..outLen |->
          LET g == (j - 1) \div 3
              k == (j - 1) % 3
              c0 == v(4 * g + 1)
              c1 == v(4 * g + 2)
              c2 == v(4 * g + 3)
              c3 == v(4 * g + 4)
          IN CASE k = 0 -> c0 * 4 + (c1 \div 16)
               [] k = 1 -> (c1 % 16) * 16 + (c2 \div 4)
               [] k = 2 -> (c2 % 4) * 64 + c3]

\* -------------------------------------------------------------- timestamp

\* Proleptic Gregorian date of a day count since 1970-01-01.
CivilFromDays(days) ==
    LET z == days + 719468
        era == z \div 146097
        doe == z - era * 146097
        yoe == (doe - (doe \div 1460) + (doe \div 36524) - (doe \div 146096)) \div 365
        doy == doe - (365 * yoe + (yoe \div 4) - (yoe \div 100))
        mp == (5 * doy + 2) \div 153
        d == doy - ((153 * mp + 2) \div 5) + 1
        m == IF mp < 10 THEN mp + 3 ELSE mp - 9
        y == yoe + era * 400 + (IF m <= 2 THEN 1 ELSE 0)
    IN [year |-> y, month |-> m, day |-> d]

\* Zero-padded decimal digits of n, w characters wide, as ASCII codes.
Digits(n, w) == [i \in 1..w |-> 48 + ((n \div (10 ^ (w - i))) % 10)]

\* chrono's format("%Y%m%d%H%M%S") of a local time given in whole seconds.
FormatTimestamp(secs) ==
    LET date == CivilFromDays(secs \div 86400)
        sod == secs % 86400
    IN Digits(date.year, 4) \o Digits(date.month, 2) \o Digits(date.day, 2)
       \o Digits(sod \div 3600, 2) \o Digits((sod % 3600) \div 60, 2)
       \o Digits(sod % 60, 2)

\* The clock readings a run may start from (local time, whole seconds):
\* 2023-10-10 10:10:10, 2023-12-31 23:59:58 and 2024-02-29 23:59:58.
ClockStarts == {1696932610, 1704067198, 1709251198}

\* 2023-12-31 23:59:58, where the request pipeline's runs start.
ClockStart == 1704067198

Now_frozen(c) == [secs |-> ClockStart, sub |-> 0]

\* chrono::Local::now(): the current reading, seconds and sub-second part.
Now(c) == c

\* The clock may advance while it is within MaxSeconds of a starting value.
CanTick(c) ==
    \E s \in ClockStarts :
        /\ c.secs >= s
        /\ (c.secs - s) * TicksPerSecond + c.sub < MaxSeconds * TicksPerSecond

TickOf(c) ==
    IF c.sub + 1 < TicksPerSecond
    THEN [secs |-> c.secs, sub |-> c.sub + 1]
    ELSE [secs |-> c.secs + 1, sub |-> 0]

\* ------------------------------------------------------------- input data

\* "174379" and "600000".
ShortCodes == { <<49, 55, 52, 51, 55, 57>>, <<54, 48, 48, 48, 48, 48>> }

\* super::DEFAULT_PASSKEY:
\* "bfb279f9aa9bdbcf158e97dd71a467cd2e0c893059b10f78e6b72ada1ed2c919".
DEFAULT_PASSKEY ==
    <<98, 102, 98, 50, 55, 57, 102, 57, 97, 97, 57, 98, 100, 98, 99, 102,
      49, 53, 56, 101, 57, 55, 100, 100, 55, 49, 97, 52, 54, 55, 99, 100,
      50, 101, 48, 99, 56, 57, 51, 48, 53, 57, 98, 49, 48, 102, 55, 56,
      101, 54, 98, 55, 50, 97, 100, 97, 49, 101, 100, 50, 99, 57, 49, 57>>

\* Passkeys a caller may supply: the default itself, "secret" and "".
PassKeys == { DEFAULT_PASSKEY, <<115, 101, 99, 114, 101, 116>>, <<>> }

OptPassKeys == {None} \cup {Some(k) : k \in PassKeys}

\* --------------------------------------------------------- encode_password

encode_password_no_default(business_short_code, pass_key, now) ==
    encode_block(business_short_code
                 \o (IF IsSome(pass_key) THEN pass_key.val ELSE <<>>)
                 \o FormatTimestamp(now.secs))

encode_password_minutes(business_short_code, pass_key, now) ==
    encode_block(business_short_code \o unwrap_or(pass_key, DEFAULT_PASSKEY)
                 \o FormatTimestamp(now.secs - (now.secs % 60)))

\* MpesaExpress::encode_password; now is the reading of Local::now() it takes.
encode_password(business_short_code, pass_key, now) ==
    encode_block(business_short_code \o unwrap_or(pass_key, DEFAULT_PASSKEY)
                 \o FormatTimestamp(now.secs))


\* Inverse of CivilFromDays: the day count since 1970-01-01 of a date.
DaysFromCivil(y0, m, d) ==
    LET y == IF m <= 2 THEN y0 - 1 ELSE y0
        era == y \div 400
        yoe == y - era * 400
        mp == IF m > 2 THEN m - 3 ELSE m + 9
        doy == ((153 * mp + 2) \div 5) + d - 1
        doe == yoe * 365 + (yoe \div 4) - (yoe \div 100) + doy
    IN era * 146097 + doe - 719468

\* The number written by the ASCII digits s[from..to].
RECURSIVE NumberAt(_, _, _)
NumberAt(s, from, to) ==
    IF to < from THEN 0
    ELSE NumberAt(s, from, to - 1) * 10 + (s[to] - 48)

\* The gateway's reading of a YYYYMMDDHHMMSS timestamp, in whole seconds.
ParseTimestamp(ts) ==
    DaysFromCivil(NumberAt(ts, 1, 4), NumberAt(ts, 5, 6), NumberAt(ts, 7, 8)) * 86400
    + NumberAt(ts, 9, 10) * 3600 + NumberAt(ts, 11, 12) * 60 + NumberAt(ts, 13, 14)

\* The last n bytes of a byte string.
Suffix(s, n) == SubSeq(s, Len(s) - n + 1, Len(s))

\* ------------------------------------------------------------------ state

VARIABLES
    clock,        \* local wall clock: [secs, sub]
    builder,      \* MpesaExpressBuilder: the fields set so far
    buildResult,  \* what build() has just returned, until the caller's next call
    express,      \* the MpesaExpress value in hand, if any
    expressHist,  \* how express came to be: origin, validate runs, clock then
    conv,         \* send(): the conversion into MpesaExpressRequest under way;
                  \* password_at records when the password was encoded
    sent,         \* the request handed to the transport by send(), if any
    calls,        \* direct encode_password calls: the last two, with results
    credIn,       \* Mpesa client configuration: certificate, initiator password
    credOut       \* what gen_security_credentials returned, if called

vars == <<clock, builder, buildResult, express, expressHist, conv, sent,
          calls, credIn, credOut>>

expressVars == <<builder, buildResult, express, expressHist, conv, sent>>
credVars == <<credIn, credOut>>

\* --------------------------------------------------------------- CommandId

\* crate::constants::CommandId: the two express types and sibling families'.
CommandIds == {"BusinessBuyGoods", "CustomerPayBillOnline",
               "AccountBalance", "BusinessPayment"}

\* ------------------------------------------------------------ phone number

IsDigit(c) == c >= 48 /\ c <= 57

\* crate::validator::PhoneNumberValidator::validate: 254 followed by nine
\* digits, twelve digits in all, nothing else.
PhoneNumberValid(p) ==
    /\ Len(p) = 12
    /\ p[1] = 50 /\ p[2] = 53 /\ p[3] = 52
    /\ \A i \in 1..Len(p) : IsDigit(p[i])

\* "254712345678", "254700000000", "+254 712 345 678", "0712345678", "12345".
PhoneNumbers ==
    { <<50, 53, 52, 55, 49, 50, 51, 52, 53, 54, 55, 56>>,
      <<50, 53, 52, 55, 48, 48, 48, 48, 48, 48, 48, 48>>,
      <<43, 50, 53, 52, 32, 55, 49, 50, 32, 51, 52, 53, 32, 54, 55, 56>>,
      <<48, 55, 49, 50, 51, 52, 53, 54, 55, 56>>,
      <<49, 50, 51, 52, 53>> }

\* ----------------------------------------------------------------- builder

\* The required fields of MpesaExpress whose values no rule reads.
OtherFields == {"amount", "party_a", "party_b", "callback_url", "account_ref"}

\* MpesaExpressBuilder::default().client(client): nothing else set.
NewBuilder ==
    [business_short_code |-> None,
     transaction_type |-> None,
     phone_number |-> None,
     pass_key |-> None,
     others |-> {}]

validate_phone_required(b) ==
    IF b.transaction_type # Some("BusinessBuyGoods")
       /\ b.transaction_type # Some("CustomerPayBillOnline")
    THEN "InvalidTransactionType"
    ELSE IF ~IsSome(b.phone_number) \/ ~PhoneNumberValid(b.phone_number.val)
    THEN "InvalidPhoneNumber"
    ELSE "Ok"

\* MpesaExpressBuilder::validate: "Ok" or the error it returns.
validate(b) ==
    IF b.transaction_type # Some("BusinessBuyGoods")
       /\ b.transaction_type # Some("CustomerPayBillOnline")
    THEN "InvalidTransactionType"
    ELSE IF IsSome(b.phone_number) /\ ~PhoneNumberValid(b.phone_number.val)
    THEN "InvalidPhoneNumber"
    ELSE "Ok"

\* A field the generated build() finds unset after validation passed.
HasUninitializedField(b) ==
    \/ ~IsSome(b.business_short_code)
    \/ ~IsSome(b.transaction_type)
    \/ ~IsSome(b.phone_number)
    \/ b.others # OtherFields

\* The MpesaExpress the generated build() assembles; pass_key defaults to
\* Some(DEFAULT_PASSKEY) when its setter was never called.
BuiltExpress(b) ==
    [business_short_code |-> b.business_short_code.val,
     transaction_type |-> b.transaction_type.val,
     phone_number |-> b.phone_number.val,
     pass_key |-> unwrap_or(b.pass_key, Some(DEFAULT_PASSKEY))]

\* What build() returns: validate runs first, then the unset-field check.
build_skips_validate(b) ==
    IF HasUninitializedField(b) THEN "UninitializedField" ELSE "Ok"

build(b) ==
    IF validate(b) # "Ok" THEN validate(b)
    ELSE IF HasUninitializedField(b) THEN "UninitializedField"
    ELSE "Ok"

NoHist == [origin |-> "none", validations |-> 0, at |-> 0]
ConvIdle == [pc |-> "idle"]

\* True while no MpesaExpress is in hand, no send is under way and nothing
\* has been transmitted for the transaction the builder was created for.
Drafting == ~IsSome(express) /\ conv.pc = "idle" /\ ~IsSome(sent)


\* ---------------------------------------------------------------- actions

\* Time passes: the wall clock advances by one sub-second step.
Tick ==
    /\ CanTick(clock)
    /\ clock' = TickOf(clock)
    /\ UNCHANGED <<expressVars, calls, credVars>>

\* MpesaExpress::builder(client): a fresh builder for the next transaction.
Builder ==
    /\ ~IsSome(express)
    /\ conv.pc = "idle"
    /\ builder' = NewBuilder
    /\ buildResult' = "none"
    /\ expressHist' = NoHist
    /\ sent' = None
    /\ UNCHANGED <<clock, express, conv, calls, credVars>>

\* The generated setter business_short_code(value).
SetBusinessShortCode ==
    /\ Drafting
    /\ \E sc \in ShortCodes :
         builder' = [builder EXCEPT !.business_short_code = Some(sc)]
    /\ buildResult' = "none"
    /\ UNCHANGED <<clock, express, expressHist, conv, sent, calls, credVars>>

\* The generated setter transaction_type(value).
SetTransactionType ==
    /\ Drafting
    /\ \E c \in CommandIds :
         builder' = [builder EXCEPT !.transaction_type = Some(c)]
    /\ buildResult' = "none"
    /\ UNCHANGED <<clock, express, expressHist, conv, sent, calls, credVars>>

\* The generated setter phone_number(value).
SetPhoneNumber ==
    /\ Drafting
    /\ \E p \in PhoneNumbers :
         builder' = [builder EXCEPT !.phone_number = Some(p)]
    /\ buildResult' = "none"
    /\ UNCHANGED <<clock, express, expressHist, conv, sent, calls, credVars>>

\* The generated setter pass_key(value): strip_option wraps it in Some.
SetPassKey ==
    /\ Drafting
    /\ \E k \in PassKeys :
         builder' = [builder EXCEPT !.pass_key = Some(Some(k))]
    /\ buildResult' = "none"
    /\ UNCHANGED <<clock, express, expressHist, conv, sent, calls, credVars>>

\* The generated setters amount, party_a, party_b, callback_url, account_ref.
SetOtherField ==
    /\ Drafting
    /\ \E f \in OtherFields :
         builder' = [builder EXCEPT !.others = @ \cup {f}]
    /\ buildResult' = "none"
    /\ UNCHANGED <<clock, express, expressHist, conv, sent, calls, credVars>>

\* The generated build(): validate, then assemble the MpesaExpress.
Build ==
    /\ Drafting
    /\ buildResult' = build(builder)
    /\ IF build(builder) = "Ok"
       THEN /\ express' = Some(BuiltExpress(builder))
            /\ expressHist' = [origin |-> "build", validations |-> 1,
                               at |-> clock]
       ELSE UNCHANGED <<express, expressHist>>
    /\ UNCHANGED <<clock, builder, conv, sent, calls, credVars>>

\* The MpesaExpress that from_request assembles from a request and a passkey.
from_request(request, pass_key) ==
    [business_short_code |-> request.business_short_code,
     transaction_type |-> request.transaction_type,
     phone_number |-> request.phone_number,
     pass_key |-> pass_key]

\* MpesaExpress::from_request(client, request, pass_key): the request is any
\* MpesaExpressRequest a caller can write down, its fields being public.  The
\* builder and this value are independent; one request is followed at a time.
FromRequest ==
    /\ Drafting
    /\ builder = NewBuilder
    /\ \E sc \in ShortCodes, c \in CommandIds, p \in PhoneNumbers,
          pk \in OptPassKeys :
         express' = Some(from_request([business_short_code |-> sc,
                                       transaction_type |-> c,
                                       phone_number |-> p], pk))
    /\ expressHist' = [origin |-> "from_request", validations |-> 0,
                       at |-> clock]
    /\ buildResult' = "none"
    /\ UNCHANGED <<clock, builder, conv, sent, calls, credVars>>

\* send(), first step: self.into() begins and reads the clock for Timestamp.
SendReadTimestamp ==
    /\ IsSome(express)
    /\ conv.pc = "idle"
    /\ conv' = [pc |-> "timestamp_read",
                express |-> express.val,
                timestamp |-> Now(clock)]
    /\ express' = None
    /\ UNCHANGED <<clock, builder, buildResult, expressHist, sent, calls,
                   credVars>>

\* send(), second step: encode_password reads the clock again.
SendEncodePassword ==
    /\ conv.pc = "timestamp_read"
    /\ conv' = [pc |-> "password_encoded",
                express |-> conv.express,
                timestamp |-> conv.timestamp,
                password |-> encode_password(conv.express.business_short_code,
                                             conv.express.pass_key, Now(clock)),
                password_at |-> clock]
    /\ UNCHANGED <<clock, builder, buildResult, express, expressHist, sent,
                   calls, credVars>>

\* send(), last step: the assembled MpesaExpressRequest goes to client.send.
SendTransmit ==
    /\ conv.pc = "password_encoded"
    /\ sent' = Some([business_short_code |-> conv.express.business_short_code,
                     password |-> conv.password,
                     timestamp |-> conv.timestamp,
                     transaction_type |-> conv.express.transaction_type,
                     phone_number |-> conv.express.phone_number,
                     password_at |-> conv.password_at])
    /\ conv' = ConvIdle
    /\ UNCHANGED <<clock, builder, buildResult, express, expressHist, calls,
                   credVars>>

Init ==
    /\ clock = [secs |-> ClockStart, sub |-> 0]
    /\ builder = NewBuilder
    /\ buildResult = "none"
    /\ express = None
    /\ expressHist = NoHist
    /\ conv = ConvIdle
    /\ sent = None
    /\ calls = <<>>
    /\ credIn = None
    /\ credOut = None

Next ==
    \/ Tick
    \/ Builder
    \/ SetBusinessShortCode
    \/ SetTransactionType
    \/ SetPhoneNumber
    \/ SetPassKey
    \/ SetOtherField
    \/ Build
    \/ FromRequest
    \/ SendReadTimestamp
    \/ SendEncodePassword
    \/ SendTransmit

Spec == Init /\ [][Next]_vars


\* ------------------------------------------------- properties: the validator

\* The transaction types legal for an express request.
ExpressCommandIds == {"BusinessBuyGoods", "CustomerPayBillOnline"}

LegalType(t) == IsSome(t) /\ t.val \in ExpressCommandIds

\* The 14 characters that end the decoded Password: its embedded timestamp.
EmbeddedTimestamp(password) == Suffix(Base64Decode(password), 14)

\* C1: validate rejects the builder's transaction type with the invalid
\* transaction type error exactly when it is unset or any CommandId other
\* than BusinessBuyGoods and CustomerPayBillOnline, and a MpesaExpress that
\* build() returned always has one of these two types.
C1_ValidateCommandId ==
    /\ (validate(builder) = "InvalidTransactionType")
         <=> ~LegalType(builder.transaction_type)
    /\ (build(builder) = "Ok") => LegalType(builder.transaction_type)
    /\ (IsSome(express) /\ expressHist.origin = "build")
         => express.val.transaction_type \in ExpressCommandIds
    /\ (conv.pc # "idle" /\ expressHist.origin = "build")
         => conv.express.transaction_type \in ExpressCommandIds

\* C1 witness: build() has rejected a fully populated builder whose only fault
\* is a CommandId of another transaction family.
C1_Witness ==
    /\ buildResult = "InvalidTransactionType"
    /\ IsSome(builder.transaction_type)
    /\ builder.transaction_type.val \in CommandIds \ ExpressCommandIds
    /\ ~HasUninitializedField(builder)
    /\ PhoneNumberValid(builder.phone_number.val)

\* C2: with a legal transaction type, validate fails with the phone number
\* error if and only if a phone number was supplied and it does not match the
\* national format; with no phone number supplied it returns Ok.
C2_ValidatePhoneNumber ==
    LegalType(builder.transaction_type) =>
        /\ (validate(builder) = "InvalidPhoneNumber")
             <=> (IsSome(builder.phone_number)
                  /\ ~PhoneNumberValid(builder.phone_number.val))
        /\ ~IsSome(builder.phone_number) => validate(builder) = "Ok"
        /\ validate(builder) \in {"Ok", "InvalidPhoneNumber"}

\* C2 witness: build() has rejected a builder of legal type for its malformed
\* phone number.
C2_Witness ==
    /\ buildResult = "InvalidPhoneNumber"
    /\ LegalType(builder.transaction_type)
    /\ IsSome(builder.phone_number)
    /\ ~PhoneNumberValid(builder.phone_number.val)

\* C3: a MpesaExpress exists, is being sent or has been transmitted only after
\* its fields passed validation, and every transmitted request has a legal
\* transaction type and a well-formed phone number.
C3_OnlyValidatedTransmitted ==
    /\ (IsSome(express) \/ conv.pc # "idle") => expressHist.validations >= 1
    /\ IsSome(sent) =>
         /\ sent.val.transaction_type \in ExpressCommandIds
         /\ PhoneNumberValid(sent.val.phone_number)

\* C9: validate has run exactly once on every request in hand, being sent or
\* transmitted; a build() that did not return Ok left no MpesaExpress behind.
C9_ValidatedExactlyOnce ==
    /\ (IsSome(express) \/ conv.pc # "idle" \/ IsSome(sent))
         => expressHist.validations = 1
    /\ (buildResult \notin {"none", "Ok"}) => ~IsSome(express)

\* C10: in every request handed to the transport, the Timestamp field
\* formatted as YYYYMMDDHHMMSS equals the timestamp embedded in the Password.
C10_TimestampMatchesPassword ==
    IsSome(sent) =>
        FormatTimestamp(sent.val.timestamp.secs)
          = EmbeddedTimestamp(sent.val.password)

\* True when clock reading a is not later than clock reading b.
NotLater(a, b) == a.secs < b.secs \/ (a.secs = b.secs /\ a.sub <= b.sub)

\* C6: the password of a request is derived during send: the timestamp it
\* embeds is the time at which the encoding step of send ran, which is not
\* before send began nor before the request was constructed, whatever time
\* passed since build() or from_request; when the second has changed since
\* construction it is not the time of construction.
C6_PasswordDerivedAtSend ==
    /\ conv.pc = "password_encoded" =>
         /\ ParseTimestamp(EmbeddedTimestamp(conv.password))
              = conv.password_at.secs
         /\ NotLater(expressHist.at, conv.timestamp)
         /\ NotLater(conv.timestamp, conv.password_at)
         /\ NotLater(conv.password_at, clock)
    /\ IsSome(sent) =>
         /\ ParseTimestamp(EmbeddedTimestamp(sent.val.password))
              = sent.val.password_at.secs
         /\ NotLater(expressHist.at, sent.val.timestamp)
         /\ NotLater(sent.val.timestamp, sent.val.password_at)
         /\ expressHist.at.secs # sent.val.password_at.secs
              => EmbeddedTimestamp(sent.val.password)
                   # FormatTimestamp(expressHist.at.secs)

\* C6 witness: a request was transmitted whose construction and password
\* derivation fell into different seconds.
C6_Witness ==
    /\ IsSome(sent)
    /\ expressHist.at.secs < sent.val.password_at.secs
    /\ ParseTimestamp(EmbeddedTimestamp(sent.val.password))
         = sent.val.password_at.secs


\* ------------------------------------------ encode_password called directly

\* The last two entries of a sequence.
LastTwo(q) == IF Len(q) <= 2 THEN q ELSE SubSeq(q, Len(q) - 1, Len(q))

\* A caller invokes MpesaExpress::encode_password(business_short_code,
\* pass_key); the call reads the clock.
EncodePasswordCall ==
    /\ \E sc \in ShortCodes, pk \in OptPassKeys :
         calls' = LastTwo(Append(calls,
                     [business_short_code |-> sc,
                      pass_key |-> pk,
                      at |-> Now(clock),
                      out |-> encode_password(sc, pk, Now(clock))]))
    /\ UNCHANGED <<clock, expressVars, credVars>>

InitEncode ==
    /\ clock \in {[secs |-> s, sub |-> 0] : s \in ClockStarts}
    /\ builder = NewBuilder
    /\ buildResult = "none"
    /\ express = None
    /\ expressHist = NoHist
    /\ conv = ConvIdle
    /\ sent = None
    /\ calls = <<>>
    /\ credIn = None
    /\ credOut = None

NextEncode ==
    \/ Tick
    \/ EncodePasswordCall

SpecEncode == InitEncode /\ [][NextEncode]_vars

\* The passkey a call ends up using.
EffectivePassKey(pk) == IF IsSome(pk) THEN pk.val ELSE DEFAULT_PASSKEY

\* C4: every encode_password result is the base64 encoding of short code,
\* then passkey (the default one when none is given), then the clock reading
\* written as 14 digits YYYYMMDDHHMMSS; a call without passkey returns what a
\* call in the same second with the default passkey given explicitly returns.
C4_PasswordIsBase64OfConcatenation ==
    /\ \A i \in DOMAIN calls :
         LET c == calls[i]
             plain == Base64Decode(c.out)
             ts == Suffix(plain, 14)
         IN /\ Len(plain) = Len(c.business_short_code)
                              + Len(EffectivePassKey(c.pass_key)) + 14
            /\ plain = c.business_short_code \o EffectivePassKey(c.pass_key) \o ts
            /\ \A j \in 1..14 : IsDigit(ts[j])
            /\ ParseTimestamp(ts) = c.at.secs
            /\ c.out = Base64Std(plain)
    /\ \A i, j \in DOMAIN calls :
         (/\ calls[i].business_short_code = calls[j].business_short_code
          /\ calls[i].at.secs = calls[j].at.secs
          /\ calls[i].pass_key = None
          /\ calls[j].pass_key = Some(DEFAULT_PASSKEY))
         => calls[i].out = calls[j].out

\* C4 witness: a call without passkey and a call with the default passkey
\* given explicitly, same short code, same second.
C4_Witness ==
    /\ Len(calls) = 2
    /\ calls[1].business_short_code = calls[2].business_short_code
    /\ calls[1].at.secs = calls[2].at.secs
    /\ calls[1].pass_key = None
    /\ calls[2].pass_key = Some(DEFAULT_PASSKEY)
    /\ calls[1].out = calls[2].out

\* C5: two encode_password calls with the same short code and passkey return
\* the same string when made within the same second and different strings
\* when their seconds differ.
C5_DeterministicPerSecond ==
    \A i, j \in DOMAIN calls :
        (/\ calls[i].business_short_code = calls[j].business_short_code
         /\ calls[i].pass_key = calls[j].pass_key)
        => /\ calls[i].at.secs = calls[j].at.secs => calls[i].out = calls[j].out
           /\ calls[i].at.secs # calls[j].at.secs => calls[i].out # calls[j].out

\* C5 witness: the same short code and passkey encoded at two clock readings
\* one second apart, the later one at another sub-second position.
C5_Witness ==
    /\ Len(calls) = 2
    /\ calls[1].business_short_code = calls[2].business_short_code
    /\ calls[1].pass_key = calls[2].pass_key
    /\ calls[2].at.secs = calls[1].at.secs + 1
    /\ calls[2].at.sub # calls[1].at.sub
    /\ calls[1].out # calls[2].out


\* ------------------------------------------------ gen_security_credentials

\* Bytes PKCS#1 v1.5 encryption padding adds to the plaintext at least.
RSA_PKCS1_PADDING_SIZE == 11

\* Result<T, MpesaError>.
Ok(v) == [ok |-> TRUE, err |-> "", val |-> v]
Err(e) == [ok |-> FALSE, err |-> e, val |-> <<>>]

\* The call did not return: a panic unwound through it.
Panicked == [ok |-> FALSE, err |-> "panic", val |-> <<>>]

\* The certificate of the environment: whether its PEM text parses, what key
\* it carries, and the key's size in bytes (for RSA, the modulus length).
ModulusSizes == (MinModulusBytes..MaxModulusBytes) \cup {128, 256}

Certificates ==
    [pem : {"ok", "malformed"},
     key : {"rsa", "ec", "undecodable"},
     size : ModulusSizes]

\* Initiator passwords: short ones, and ones at the limit a modulus sets.
PasswordLengths ==
    (0..MaxPasswordLen)
    \cup {m - d : m \in ModulusSizes,
                  d \in {RSA_PKCS1_PADDING_SIZE - 1, RSA_PKCS1_PADDING_SIZE,
                         RSA_PKCS1_PADDING_SIZE + 1}}

Passwords == {[i \in 1..n |-> c] : n \in PasswordLengths, c \in {0, 112}}

\* What the random padding bytes of one encryption amount to.
PaddingSeeds == {1, 2}

\* The error `?` returns for the openssl call that failed: From<ErrorStack>
\* for MpesaError, by the failing library call.
EncryptionError(call) ==
    CASE call = "X509::from_pem" -> "EncryptionError::CertificateParse"
      [] call = "X509::public_key" -> "EncryptionError::KeyExtraction"
      [] call = "PKey::rsa" -> "EncryptionError::KeyExtraction"
      [] call = "Rsa::public_encrypt" -> "EncryptionError::EncryptFailed"

\* Rsa::public_encrypt(from, to, Padding::PKCS1) on a key of `size` bytes:
\* panics when `to` is shorter than the key, fails when `from` does not fit
\* under the padding, else writes `size` ciphertext bytes into `to`.  The
\* ciphertext is opaque: it varies with the plaintext and the random padding.
public_encrypt(size, from, to, seed) ==
    IF Len(to) < size THEN [status |-> "panic", to |-> to]
    ELSE IF Len(from) > size - RSA_PKCS1_PADDING_SIZE
    THEN [status |-> "error", to |-> to]
    ELSE [status |-> "ok",
          to |-> [i \in 1..Len(to) |->
                    IF i <= size
                    THEN (seed * 31 + i * 7 + Len(from) * 13
                          + (IF Len(from) > 0 THEN from[1] ELSE 0)) % 256
                    ELSE to[i]]]

gen_security_credentials_unwrap(cert, password, seed) ==
    IF cert.pem # "ok" \/ cert.key # "rsa"
    THEN [steps |-> <<"X509::from_pem">>, result |-> Panicked]
    ELSE LET buffer == [i \in 1..cert.size |-> 0]
             written == public_encrypt(cert.size, password, buffer, seed)
         IN IF written.status \in {"panic", "error"}
            THEN [steps |-> <<"X509::from_pem", "X509::public_key", "PKey::rsa",
                              "Rsa::public_encrypt">>,
                  result |-> Panicked]
            ELSE [steps |-> <<"X509::from_pem", "X509::public_key", "PKey::rsa",
                              "Rsa::public_encrypt", "encode">>,
                  result |-> Ok(encode(written.to))]

gen_security_credentials_plaintext_len(cert, password, seed) ==
    IF cert.pem # "ok"
    THEN [steps |-> <<"X509::from_pem">>,
          result |-> Err(EncryptionError("X509::from_pem"))]
    ELSE IF cert.key = "undecodable"
    THEN [steps |-> <<"X509::from_pem", "X509::public_key">>,
          result |-> Err(EncryptionError("X509::public_key"))]
    ELSE IF cert.key # "rsa"
    THEN [steps |-> <<"X509::from_pem", "X509::public_key", "PKey::rsa">>,
          result |-> Err(EncryptionError("PKey::rsa"))]
    ELSE LET buffer == [i \in 1..cert.size |-> 0]
             written == public_encrypt(cert.size, password, buffer, seed)
         IN IF written.status = "panic"
            THEN [steps |-> <<"X509::from_pem", "X509::public_key", "PKey::rsa",
                              "Rsa::public_encrypt">>,
                  result |-> Panicked]
            ELSE IF written.status = "error"
            THEN [steps |-> <<"X509::from_pem", "X509::public_key", "PKey::rsa",
                              "Rsa::public_encrypt">>,
                  result |-> Err(EncryptionError("Rsa::public_encrypt"))]
            ELSE [steps |-> <<"X509::from_pem", "X509::public_key", "PKey::rsa",
                              "Rsa::public_encrypt", "encode">>,
                  result |-> Ok(encode(SubSeq(written.to, 1,
                                 Len(password) + RSA_PKCS1_PADDING_SIZE)))]

\* MpesaSecurity::gen_security_credentials for Mpesa: the openssl calls it
\* made, in order, and what it returned.  Each `?` returns at the first
\* failing call; the buffer has the size pub_key.size() reports.
gen_security_credentials(cert, password, seed) ==
    IF cert.pem # "ok"
    THEN [steps |-> <<"X509::from_pem">>,
          result |-> Err(EncryptionError("X509::from_pem"))]
    ELSE IF cert.key = "undecodable"
    THEN [steps |-> <<"X509::from_pem", "X509::public_key">>,
          result |-> Err(EncryptionError("X509::public_key"))]
    ELSE IF cert.key # "rsa"
    THEN [steps |-> <<"X509::from_pem", "X509::public_key", "PKey::rsa">>,
          result |-> Err(EncryptionError("PKey::rsa"))]
    ELSE LET buf_len == cert.size
             buffer == [i \in 1..buf_len |-> 0]
             written == public_encrypt(cert.size, password, buffer, seed)
         IN IF written.status = "panic"
            THEN [steps |-> <<"X509::from_pem", "X509::public_key", "PKey::rsa",
                              "Rsa::public_encrypt">>,
                  result |-> Panicked]
            ELSE IF written.status = "error"
            THEN [steps |-> <<"X509::from_pem", "X509::public_key", "PKey::rsa",
                              "Rsa::public_encrypt">>,
                  result |-> Err(EncryptionError("Rsa::public_encrypt"))]
            ELSE [steps |-> <<"X509::from_pem", "X509::public_key", "PKey::rsa",
                              "Rsa::public_encrypt", "encode">>,
                  result |-> Ok(encode(written.to))]

\* A caller invokes gen_security_credentials on the configured client.
GenSecurityCredentials ==
    /\ IsSome(credIn)
    /\ \E seed \in PaddingSeeds :
         credOut' = Some(gen_security_credentials(credIn.val.certificate,
                             credIn.val.initiator_password, seed))
    /\ UNCHANGED <<clock, expressVars, calls, credIn>>

\* A client configured with an environment's certificate and a password.
InitCred ==
    /\ clock = [secs |-> ClockStart, sub |-> 0]
    /\ builder = NewBuilder
    /\ buildResult = "none"
    /\ express = None
    /\ expressHist = NoHist
    /\ conv = ConvIdle
    /\ sent = None
    /\ calls = <<>>
    /\ credIn \in {Some([certificate |-> c, initiator_password |-> p]) :
                     c \in Certificates, p \in Passwords}
    /\ credOut = None

NextCred == GenSecurityCredentials

SpecCred == InitCred /\ [][NextCred]_vars

\* True when a sequence has an entry equal to x.
Has(q, x) == \E i \in DOMAIN q : q[i] = x

C8_CredentialLengthIsModulus ==
    (/\ IsSome(credOut)
     /\ credIn.val.certificate.pem = "ok"
     /\ credIn.val.certificate.key = "rsa"
     /\ Len(credIn.val.initiator_password)
          < credIn.val.certificate.size - RSA_PKCS1_PADDING_SIZE)
    => /\ credOut.val.result.ok
       /\ Len(Base64Decode(credOut.val.result.val)) = credIn.val.certificate.size
       /\ Len(credOut.val.result.val)
            = 4 * ((credIn.val.certificate.size + 2) \div 3)

\* C8 witness: a credential returned for a 128-byte modulus and a non-empty
\* password well under the limit.
C8_Witness ==
    /\ IsSome(credOut)
    /\ credIn.val.certificate.pem = "ok"
    /\ credIn.val.certificate.key = "rsa"
    /\ credIn.val.certificate.size = 128
    /\ Len(credIn.val.initiator_password) = MaxPasswordLen
    /\ credOut.val.result.ok
    /\ Len(Base64Decode(credOut.val.result.val)) = 128

====
